---- MODULE Spec2Model ----
(***************************************************************************)
(* Model of the expense tracker: the IndexedDB object stores kept by       *)
(* services/db, the in-memory transaction list of App, and the handlers    *)
(* that read and write them (transaction form, group split, settlement,   *)
(* delete confirmation, budgets, settings, backup and restore).           *)
(***************************************************************************)
EXTENDS Integers, Sequences, FiniteSets, TLC

(* ---------- bounds of the model ---------- *)
MaxAmount == 1
MaxGroupTotal == 3
MaxGroup == 2
MaxSettle == 1
MaxTxns == 2
MaxNow == 1
MaxRand == 0
MaxUuid == MaxTxns
MaxBudgets == 1
MaxPlanned == 2

(* ---------- vocabulary ---------- *)
Myself == "Myself"
SettlementTag == "Settlement"
InvestmentTag == "Investment"
defaultTags == <<"Food & Drink", "Investment">>
defaultNames == <<"Myself", "John Doe", "Jane Smith">>
FormTags == {defaultTags[i] : i \in 1..Len(defaultTags)}
FormPersons == {defaultNames[i] : i \in 1..Len(defaultNames)}
\* the ledger ignores tag and date: its runs enter one tag and one date
LedgerTags == {defaultTags[1]}
LedgerTimes == {0}
FormName == "lunch"
Description == "settle up"
Rand == 0..MaxRand
NoSettings == [id |-> "none"]
NoModal == [isOpen |-> FALSE]
NoTxn == [id |-> [k |-> "none", n |-> 0, r |-> 0]]
\* what parseInt makes of an empty confirmation field
NaN == -1
\* the text of the confirmation field (input type="number", outside any form):
\* empty, or a number written as "whole" (tenths = 0) or "whole.tenths"
EmptyText == [digits |-> FALSE, whole |-> 0, tenths |-> 0]
Entered(whole, tenths) == [digits |-> TRUE, whole |-> whole, tenths |-> tenths]
\* parseInt(confirmAmount): the digits before the point, NaN for no digits
parseInt(text) == IF text.digits THEN text.whole ELSE NaN
SpentForMeName == "Settlement (Spent for me): settle up"

NoBackup == [version |-> 0]
\* a date field that is undefined or '' (both falsy)
NoDate == -1

\* txStore, settingsStore, budgetStore: the object stores of the database
\* transactions: the list App holds in memory; settlementModal, transactionToDelete:
\* the open modal of PeopleLedger and of App; backupFile: the last exported backup
\* atBackup: the stores as they were when backupFile was made (history)
\* last: what the last handler did (history); reported: it told the user of a
\* failure (alert); entered: the text of the confirmation field it read; total,
\* persons: the amount and the persons of the group form it read
VARIABLES txStore, settingsStore, budgetStore, transactions, settlementModal,
          transactionToDelete, backupFile, atBackup, now, nextUuid, last

vars == <<txStore, settingsStore, budgetStore, transactions, settlementModal,
          transactionToDelete, backupFile, atBackup, now, nextUuid, last>>

(* ---------- sequences ---------- *)
Range(s) == {s[i] : i \in 1..Len(s)}

SumAmount(s) ==
  LET f[i \in 0..Len(s)] == IF i = 0 THEN 0 ELSE f[i - 1] + s[i].amount
  IN f[Len(s)]

FilterType(s, ty) == SelectSeq(s, LAMBDA t : t.type = ty)

(* ---------- ids ---------- *)
\* crypto.randomUUID(): a value never handed out before
Uuid(n) == [k |-> "uuid", n |-> n, r |-> 0]

\* `settle-${Date.now()}-<kind>-${Math.random().toString(36).substr(2, 9)}`
SettleId(kind, ms, r) == [k |-> kind, n |-> ms, r |-> r]

\* position of the id's text in the key order of the object store: a UUID
\* (hex digit first) sorts before "settle-...", settle ids by time, then by
\* the kind infix ("cash" < "other" < "spent-exp" < "spent-repay"), then suffix
KindRank(k) ==
  CASE k = "uuid" -> 0
    [] k = "cash" -> 1
    [] k = "other" -> 2
    [] k = "spent-exp" -> 3
    [] k = "spent-repay" -> 4
    [] OTHER -> 5

IdLess(a, b) ==
  IF (a.k = "uuid") # (b.k = "uuid") THEN a.k = "uuid"
  ELSE \/ a.n < b.n
       \/ a.n = b.n /\ KindRank(a.k) < KindRank(b.k)
       \/ a.n = b.n /\ a.k = b.k /\ a.r < b.r

(* ---------- services/db: object stores ---------- *)
\* db.put on a store with keyPath 'id': insert, or replace the record of that id
Put(store, rec) == {x \in store : x.id # rec.id} \cup {rec}

\* mutant: delete removes the records stored before the one of the id as well
DeleteUpTo(store, id) == {x \in store : x.id # id /\ ~IdLess(x.id, id)}

\* db.delete(STORE_NAME, id)
Delete(store, id) == {x \in store : x.id # id}

\* getAllFromIndex(STORE_NAME, 'by-date'): ascending occurredAt, then key
ByDateBefore(a, b) ==
  \/ a.occurredAt < b.occurredAt
  \/ a.occurredAt = b.occurredAt /\ IdLess(a.id, b.id)

getAllTransactions(store) ==
  LET n == Cardinality(store)
      at(i) == CHOOSE t \in store :
                 Cardinality({u \in store : ByDateBefore(u, t)}) = i - 1
  IN [i \in 1..n |-> at(i)]

\* db.getAll(store): the records in ascending key order
getAll(store) ==
  LET n == Cardinality(store)
      at(i) == CHOOSE t \in store :
                 Cardinality({u \in store : IdLess(u.id, t.id)}) = i - 1
  IN [i \in 1..n |-> at(i)]

\* data.sort((a, b) => new Date(b.occurredAt) - new Date(a.occurredAt)): stable
InsertDescByTime(acc, x) ==
  LET p == Cardinality({j \in 1..Len(acc) : acc[j].occurredAt >= x.occurredAt})
  IN SubSeq(acc, 1, p) \o <<x>> \o SubSeq(acc, p + 1, Len(acc))

SortDescByTime(s) ==
  LET f[i \in 0..Len(s)] == IF i = 0 THEN <<>> ELSE InsertDescByTime(f[i - 1], s[i])
  IN f[Len(s)]

loadTransactions(store) == SortDescByTime(getAllTransactions(store))

\* getSettings(): the stored tags and names, empty lists when there is no record
getSettings(st) ==
  IF st = NoSettings THEN [tags |-> <<>>, names |-> <<>>]
  ELSE [tags |-> st.tags, names |-> st.names]

(* ---------- history of the last handler run ---------- *)
NoLast == [op |-> "init", failed |-> FALSE, batch |-> <<>>, written |-> 0,
           person |-> "", balance |-> 0, cash |-> 0, spent |-> 0, other |-> 0,
           mode |-> "", reported |-> FALSE, entered |-> EmptyText, total |-> 0,
           persons |-> <<>>]

Ran(op, failed, batch, written) ==
  [NoLast EXCEPT !.op = op, !.failed = failed, !.batch = batch, !.written = written]

\* the store after the first k records of a batch were put, one by one
PutPrefix(store, batch, k) ==
  LET f[i \in 0..k] == IF i = 0 THEN store ELSE Put(f[i - 1], batch[i])
  IN f[k]

(* ---------- PeopleLedger: balances ---------- *)
\* person.transactions.sort((a, b) => b.occurredAt - a.occurredAt) is SortDescByTime

\* mutant: the user's own transactions are not filtered out
PeopleTransactionsAll(txs) == txs

\* the groups of personBalances, keyed by person in order of first appearance
PeopleTransactions(txs) == SelectSeq(txs, LAMBDA t : t.person # Myself)

PersonOrder(txs) ==
  LET pt == PeopleTransactions(txs)
      f[i \in 0..Len(pt)] ==
        IF i = 0 THEN <<>>
        ELSE IF pt[i].person \in Range(f[i - 1]) THEN f[i - 1]
             ELSE Append(f[i - 1], pt[i].person)
  IN f[Len(pt)]

\* mutant: the two totals swapped
PersonEntrySwapped(txs, p) ==
  LET mine == SortDescByTime(SelectSeq(PeopleTransactions(txs), LAMBDA t : t.person = p))
  IN [name |-> p,
      totalOwed |-> SumAmount(FilterType(mine, "income")),
      totalOwing |-> SumAmount(FilterType(mine, "expense")),
      transactions |-> mine]

PersonEntry(txs, p) ==
  LET mine == SortDescByTime(SelectSeq(PeopleTransactions(txs), LAMBDA t : t.person = p))
  IN [name |-> p,
      totalOwed |-> SumAmount(FilterType(mine, "expense")),
      totalOwing |-> SumAmount(FilterType(mine, "income")),
      transactions |-> mine]

netBalance(person) == person.totalOwed - person.totalOwing

\* mutant: the comparator reversed (netA - netB)
InsertAscByNet(acc, x) ==
  LET p == Cardinality({j \in 1..Len(acc) : netBalance(acc[j]) <= netBalance(x)})
  IN SubSeq(acc, 1, p) \o <<x>> \o SubSeq(acc, p + 1, Len(acc))

\* .sort((a, b) => netB - netA): stable, highest owed first
InsertDescByNet(acc, x) ==
  LET p == Cardinality({j \in 1..Len(acc) : netBalance(acc[j]) >= netBalance(x)})
  IN SubSeq(acc, 1, p) \o <<x>> \o SubSeq(acc, p + 1, Len(acc))

personBalances(txs) ==
  LET ord == PersonOrder(txs)
      f[i \in 0..Len(ord)] ==
        IF i = 0 THEN <<>> ELSE InsertDescByNet(f[i - 1], PersonEntry(txs, ord[i]))
  IN f[Len(ord)]

totalOwedAll(txs) ==
  LET pb == personBalances(txs)
      f[i \in 0..Len(pb)] == IF i = 0 THEN 0 ELSE f[i - 1] + pb[i].totalOwed
  IN f[Len(pb)]

totalOwingAll(txs) ==
  LET pb == personBalances(txs)
      f[i \in 0..Len(pb)] == IF i = 0 THEN 0 ELSE f[i - 1] + pb[i].totalOwing
  IN f[Len(pb)]

netBalanceAll(txs) == totalOwedAll(txs) - totalOwingAll(txs)

(* ---------- App: settlementTotal ---------- *)
settlementTotal(txs) ==
  LET peopleTransactions == PeopleTransactions(txs)
  IN SumAmount(FilterType(peopleTransactions, "expense"))
       - SumAmount(FilterType(peopleTransactions, "income"))

(* ---------- Dashboard: allTimeStats ---------- *)
settlementIncome(txs) ==
  SumAmount(SelectSeq(txs, LAMBDA t : t.type = "income" /\ t.person # Myself))

settlementExpenses(txs) ==
  SumAmount(SelectSeq(txs, LAMBDA t : t.type = "expense" /\ t.person # Myself))

allTimeSettlement(txs) == settlementExpenses(txs) - settlementIncome(txs)

allTimeStats(txs) ==
  LET income == SumAmount(FilterType(txs, "income"))
      expenses == SumAmount(FilterType(txs, "expense"))
      investments == SumAmount(SelectSeq(txs, LAMBDA t : t.tag = InvestmentTag))
      settlement == allTimeSettlement(txs)
      balance == income - expenses
  IN [income |-> income, expenses |-> expenses, balance |-> balance,
      investments |-> investments, settlement |-> settlement,
      netWorth |-> balance + investments + settlement,
      transactionCount |-> Len(txs)]

(* ---------- Dashboard: netWorthOverTime ---------- *)
\* occurredAt counts instants; a calendar day holds DayLength of them
DayLength == 2

\* new Date(occurredAt).toISOString().split('T')[0]: the day of an instant
DateKey(occurredAt) == occurredAt \div DayLength

\* new Date(date).getTime(): the first instant of a day
DateTime(date) == date * DayLength

\* [...transactions].sort((a, b) => a.occurredAt - b.occurredAt): stable
InsertAscByTime(acc, x) ==
  LET p == Cardinality({j \in 1..Len(acc) : acc[j].occurredAt <= x.occurredAt})
  IN SubSeq(acc, 1, p) \o <<x>> \o SubSeq(acc, p + 1, Len(acc))

SortAscByTime(s) ==
  LET f[i \in 0..Len(s)] == IF i = 0 THEN <<>> ELSE InsertAscByTime(f[i - 1], s[i])
  IN f[Len(s)]

\* the running totals and dataByDate after the forEach over sortedTransactions
NoTotals == [balance |-> 0, investments |-> 0, settlementIncome |-> 0,
             settlementExpenses |-> 0, dataByDate |-> <<>>]

\* mutant: dataByDate[dateKey] is written only when the day has no entry yet
AccumulateFirstOfDay(acc, t) ==
  LET isIncome == t.type = "income"
      isExpense == t.type = "expense"
      balance == acc.balance + (IF isIncome THEN t.amount ELSE 0)
                   - (IF isExpense THEN t.amount ELSE 0)
      investments == acc.investments
                       + (IF isExpense /\ t.tag = InvestmentTag THEN t.amount ELSE 0)
      sIncome == acc.settlementIncome
                   + (IF isIncome /\ t.person # Myself THEN t.amount ELSE 0)
      sExpenses == acc.settlementExpenses
                     + (IF isExpense /\ t.person # Myself THEN t.amount ELSE 0)
      dateKey == DateKey(t.occurredAt)
      point == [balance |-> balance, investments |-> investments,
                settlement |-> sExpenses - sIncome]
  IN [balance |-> balance, investments |-> investments, settlementIncome |-> sIncome,
      settlementExpenses |-> sExpenses,
      dataByDate |-> [d \in DOMAIN acc.dataByDate \cup {dateKey} |->
                        IF d \in DOMAIN acc.dataByDate THEN acc.dataByDate[d]
                        ELSE point]]

Accumulate(acc, t) ==
  LET isIncome == t.type = "income"
      isExpense == t.type = "expense"
      balance == acc.balance + (IF isIncome THEN t.amount ELSE 0)
                   - (IF isExpense THEN t.amount ELSE 0)
      investments == acc.investments
                       + (IF isExpense /\ t.tag = InvestmentTag THEN t.amount ELSE 0)
      sIncome == acc.settlementIncome
                   + (IF isIncome /\ t.person # Myself THEN t.amount ELSE 0)
      sExpenses == acc.settlementExpenses
                     + (IF isExpense /\ t.person # Myself THEN t.amount ELSE 0)
      dateKey == DateKey(t.occurredAt)
      point == [balance |-> balance, investments |-> investments,
                settlement |-> sExpenses - sIncome]
  IN [balance |-> balance, investments |-> investments, settlementIncome |-> sIncome,
      settlementExpenses |-> sExpenses,
      dataByDate |-> [d \in DOMAIN acc.dataByDate \cup {dateKey} |->
                        IF d = dateKey THEN point ELSE acc.dataByDate[d]]]

dataByDate(txs) ==
  LET sortedTransactions == SortAscByTime(txs)
      f[i \in 0..Len(sortedTransactions)] ==
        IF i = 0 THEN NoTotals ELSE Accumulate(f[i - 1], sortedTransactions[i])
  IN f[Len(sortedTransactions)].dataByDate

\* mutant: netWorth without the investments
PointNoInvestments(date, data) ==
  [date |-> date, netWorth |-> data.balance + data.settlement,
   balance |-> data.balance, investments |-> data.investments,
   settlement |-> data.settlement]

\* Object.entries(dataByDate).map(...): one chart point per entry
Point(date, data) ==
  [date |-> date, netWorth |-> data.balance + data.investments + data.settlement,
   balance |-> data.balance, investments |-> data.investments,
   settlement |-> data.settlement]

\* ... .sort((a, b) => new Date(a.date) - new Date(b.date)): the points by date
allData(txs) ==
  LET byDate == dataByDate(txs)
      dates == DOMAIN byDate
      at(i) == CHOOSE d \in dates : Cardinality({e \in dates : e < d}) = i - 1
  IN [i \in 1..Cardinality(dates) |-> Point(at(i), byDate[at(i)])]

\* TIME_PERIODS: a number of days, or 'All' (days: Infinity)
Days(n) == [bounded |-> TRUE, days |-> n]
AllTime == [bounded |-> FALSE, days |-> 0]

\* the periods the chart offers, in days
TIME_PERIODS == {Days(30), Days(90), Days(180), Days(365), AllTime}

\* mutant: the transactions are filtered before the totals are accumulated
netWorthOverTimeFilterFirst(txs, timeRange, endDate) ==
  LET startDate == IF timeRange.bounded THEN endDate - timeRange.days * DayLength ELSE 0
  IN allData(SelectSeq(txs, LAMBDA t : DateTime(DateKey(t.occurredAt)) >= startDate))

\* netWorthOverTime, lines 163-168: the points of the chosen period
netWorthOverTime(txs, timeRange, endDate) ==
  LET startDate == IF timeRange.bounded THEN endDate - timeRange.days * DayLength ELSE 0
  IN SelectSeq(allData(txs), LAMBDA d : DateTime(d.date) >= startDate)

(* ---------- Dashboard: currentValues ---------- *)
\* the forEach of currentValues, with settlement = the settlementTotal prop
currentValues(txs, total) ==
  LET step(acc, t) ==
        IF t.type = "income"
        THEN [acc EXCEPT !.balance = @ + t.amount]
        ELSE IF t.type = "expense"
        THEN [acc EXCEPT !.balance = @ - t.amount,
                         !.investments = @ + (IF t.tag = InvestmentTag THEN t.amount ELSE 0)]
        ELSE acc
      f[i \in 0..Len(txs)] ==
        IF i = 0 THEN [balance |-> 0, investments |-> 0] ELSE step(f[i - 1], txs[i])
      balance == f[Len(txs)].balance
      investments == f[Len(txs)].investments
  IN [balance |-> balance, investments |-> investments, settlement |-> total,
      netWorth |-> balance + investments + total]


Init ==
  /\ txStore = {}
  /\ settingsStore = [id |-> "user-settings", tags |-> defaultTags,
                      names |-> defaultNames, initialized |-> FALSE]
  /\ budgetStore = {}
  /\ transactions = <<>>
  /\ settlementModal = NoModal
  /\ transactionToDelete = NoTxn
  /\ backupFile = NoBackup
  /\ atBackup = NoBackup
  /\ now = 0
  /\ nextUuid = 0
  /\ last = NoLast

\* the wall clock moves on between two handlers
Tick ==
  /\ now < MaxNow
  /\ now' = now + 1
  /\ UNCHANGED <<txStore, settingsStore, budgetStore, transactions, settlementModal,
                 transactionToDelete, backupFile, atBackup, nextUuid, last>>

\* every modal is a full-screen overlay ("fixed inset-0"): while one is open the
\* page behind it takes no clicks
NoModalOpen == settlementModal = NoModal /\ transactionToDelete = NoTxn

\* TransactionForm.handleSubmit: add (no initialData) or edit (initialData = a
\* listed transaction); a write that throws is caught and logged with
\* console.error, the form shows nothing
SubmitForm(initialData, amount, type, tag, person, occurredAt, fails) ==
  LET isEdit == initialData # NoTxn
      transaction == [id |-> IF isEdit THEN initialData.id ELSE Uuid(nextUuid),
                      occurredAt |-> occurredAt, amount |-> amount, type |-> type,
                      name |-> FormName, tag |-> tag, person |-> person]
      op == IF isEdit THEN "edit" ELSE "add"
  IN /\ NoModalOpen
     /\ isEdit \/ nextUuid < MaxUuid
     /\ nextUuid' = IF isEdit THEN nextUuid ELSE nextUuid + 1
     /\ IF fails
        THEN /\ UNCHANGED <<txStore, transactions>>
             /\ last' = Ran(op, TRUE, <<>>, 0)
        ELSE /\ txStore' = Put(txStore, transaction)
             /\ transactions' = loadTransactions(txStore')
             /\ last' = Ran(op, FALSE, <<>>, 1)
     /\ UNCHANGED <<settingsStore, budgetStore, settlementModal, transactionToDelete,
                    backupFile, atBackup, now>>

\* the runs stop adding records once the store holds MaxTxns of them
Fits(added) == Cardinality(txStore) + added <= MaxTxns

AddLedger ==
  \E amount \in 1..MaxAmount, type \in {"income", "expense"}, tag \in LedgerTags,
     person \in FormPersons, occurredAt \in LedgerTimes :
    Fits(1) /\ SubmitForm(NoTxn, amount, type, tag, person, occurredAt, FALSE)

EditLedger ==
  \E initialData \in Range(transactions), amount \in 1..MaxAmount,
     type \in {"income", "expense"}, tag \in LedgerTags, person \in FormPersons,
     occurredAt \in LedgerTimes :
    Fits(0) /\ SubmitForm(initialData, amount, type, tag, person, occurredAt, FALSE)

\* the orders in which persons can be ticked in the group form
PersonSelections ==
  {s \in UNION {[1..n -> FormPersons] : n \in 1..MaxGroup} :
     \A i, j \in 1..Len(s) : i # j => s[i] # s[j]}

\* mutant: the share rounded up
groupBatchRoundUp(selectedPersons, totalAmount, tag, occurredAt, firstUuid) ==
  LET splitAmount == -((-totalAmount) \div Len(selectedPersons))
  IN [i \in 1..Len(selectedPersons) |->
        [id |-> Uuid(firstUuid + i - 1), occurredAt |-> occurredAt,
         amount |-> splitAmount, type |-> "expense", name |-> FormName,
         tag |-> tag, person |-> selectedPersons[i]]]

\* GroupTransactionModal.handleSubmit: one expense per selected person, written
\* one by one; the first write that throws ends the loop (caught and logged)
groupBatch(selectedPersons, totalAmount, tag, occurredAt, firstUuid) ==
  LET splitAmount == totalAmount \div Len(selectedPersons)
  IN [i \in 1..Len(selectedPersons) |->
        [id |-> Uuid(firstUuid + i - 1), occurredAt |-> occurredAt,
         amount |-> splitAmount, type |-> "expense", name |-> FormName,
         tag |-> tag, person |-> selectedPersons[i]]]

SubmitGroup(selectedPersons, totalAmount, tag, occurredAt, k) ==
  LET batch == groupBatch(selectedPersons, totalAmount, tag, occurredAt, nextUuid)
  IN /\ NoModalOpen
     /\ nextUuid + Len(batch) <= MaxUuid
     /\ k \in 0..Len(batch)
     /\ nextUuid' = nextUuid + Len(batch)
     /\ txStore' = PutPrefix(txStore, batch, k)
     /\ transactions' = IF k = Len(batch) THEN loadTransactions(txStore') ELSE transactions
     /\ last' = [Ran("group", k < Len(batch), batch, k)
                   EXCEPT !.total = totalAmount, !.persons = selectedPersons]
     /\ UNCHANGED <<settingsStore, budgetStore, settlementModal, transactionToDelete,
                    backupFile, atBackup, now>>

SubmitGroupLedger ==
  \E selectedPersons \in PersonSelections, totalAmount \in 0..MaxGroupTotal,
     tag \in LedgerTags, occurredAt \in LedgerTimes :
    /\ Fits(Len(selectedPersons))
    /\ SubmitGroup(selectedPersons, totalAmount, tag, occurredAt, Len(selectedPersons))

\* openSettlementModal(person.name, balance), offered when balance !== 0
OpenSettlementModal ==
  \E i \in 1..Len(personBalances(transactions)) :
    LET person == personBalances(transactions)[i]
    IN /\ NoModalOpen
       /\ netBalance(person) # 0
       /\ settlementModal' = [isOpen |-> TRUE, personName |-> person.name,
                              balance |-> netBalance(person)]
       /\ last' = Ran("openSettle", FALSE, <<>>, 0)
       /\ UNCHANGED <<txStore, settingsStore, budgetStore, transactions,
                      transactionToDelete, backupFile, atBackup, now, nextUuid>>

\* SettlementModal onClose
CloseSettlementModal ==
  /\ settlementModal # NoModal
  /\ settlementModal' = NoModal
  /\ last' = Ran("closeSettle", FALSE, <<>>, 0)
  /\ UNCHANGED <<txStore, settingsStore, budgetStore, transactions,
                 transactionToDelete, backupFile, atBackup, now, nextUuid>>

\* handleSettle, lines 36-91: the transactions a settlement creates
SettleTxn(kind, ms, r, amount, type, name, person) ==
  [id |-> SettleId(kind, ms, r), occurredAt |-> ms, amount |-> amount, type |-> type,
   name |-> name, tag |-> SettlementTag, person |-> person]

\* mutant: the direction of the "other" leg reversed
OtherTypeFlipped(balance) == IF balance > 0 THEN "expense" ELSE "income"

OtherType(balance) == IF balance > 0 THEN "income" ELSE "expense"

\* mutant: the expense of "spent for me" booked against the counterparty
transactionsToAddOnLedger(personName, balance, cashReceived, spentForMe, other, ms, rs) ==
  (IF cashReceived > 0
     THEN <<SettleTxn("cash", ms, rs[1], cashReceived, "income", Description, personName)>>
     ELSE <<>>)
  \o (IF spentForMe > 0
        THEN <<SettleTxn("spent-repay", ms, rs[2], spentForMe, "income", SpentForMeName,
                         personName),
               SettleTxn("spent-exp", ms, rs[3], spentForMe, "expense", Description,
                         personName)>>
        ELSE <<>>)
  \o (IF other > 0
        THEN <<SettleTxn("other", ms, rs[4], other, OtherType(balance), Description,
                         personName)>>
        ELSE <<>>)

\* mutant: the repayment of "spent for me" created with the cash amount
transactionsToAddCashTwice(personName, balance, cashReceived, spentForMe, other, ms, rs) ==
  (IF cashReceived > 0
     THEN <<SettleTxn("cash", ms, rs[1], cashReceived, "income", Description, personName)>>
     ELSE <<>>)
  \o (IF spentForMe > 0
        THEN <<SettleTxn("spent-repay", ms, rs[2], cashReceived, "income", SpentForMeName,
                         personName),
               SettleTxn("spent-exp", ms, rs[3], spentForMe, "expense", Description, Myself)>>
        ELSE <<>>)
  \o (IF other > 0
        THEN <<SettleTxn("other", ms, rs[4], other, OtherType(balance), Description,
                         personName)>>
        ELSE <<>>)

transactionsToAdd(personName, balance, cashReceived, spentForMe, other, ms, rs) ==
  (IF cashReceived > 0
     THEN <<SettleTxn("cash", ms, rs[1], cashReceived, "income", Description, personName)>>
     ELSE <<>>)
  \o (IF spentForMe > 0
        THEN <<SettleTxn("spent-repay", ms, rs[2], spentForMe, "income", SpentForMeName,
                         personName),
               SettleTxn("spent-exp", ms, rs[3], spentForMe, "expense", Description, Myself)>>
        ELSE <<>>)
  \o (IF other > 0
        THEN <<SettleTxn("other", ms, rs[4], other, OtherType(balance), Description,
                         personName)>>
        ELSE <<>>)

\* mutant: no early return for a total of 0, and the cash leg created for
\* cashReceived >= 0
HandleSettleNoGuard(cashReceived, spentForMe, other, rs, k) ==
  LET batch == <<SettleTxn("cash", now, rs[1], cashReceived, "income", Description,
                           settlementModal.personName)>>
               \o transactionsToAdd(settlementModal.personName, settlementModal.balance,
                                    0, spentForMe, other, now, rs)
      ran == [op |-> "settle", failed |-> k < Len(batch), batch |-> batch,
              written |-> k, person |-> settlementModal.personName,
              balance |-> settlementModal.balance, cash |-> cashReceived,
              spent |-> spentForMe, other |-> other, mode |-> "", reported |-> FALSE,
              entered |-> EmptyText, total |-> 0, persons |-> <<>>]
  IN /\ settlementModal # NoModal
     /\ k \in 0..Len(batch)
     /\ txStore' = PutPrefix(txStore, batch, k)
     /\ IF k = Len(batch)
        THEN /\ transactions' = loadTransactions(txStore')
             /\ settlementModal' = NoModal
        ELSE UNCHANGED <<transactions, settlementModal>>
     /\ last' = ran
     /\ UNCHANGED <<settingsStore, budgetStore, transactionToDelete, backupFile, atBackup,
                    now, nextUuid>>

\* handleSettle: nothing to do when the amounts add up to 0; otherwise the batch
\* is written one record at a time, and a write that throws leaves the handler
\* (no reload, the modal stays open); handleSettle shows no message, the
\* rejection goes to the caller of onSettle
HandleSettle(cashReceived, spentForMe, other, rs, k) ==
  LET totalAmount == cashReceived + spentForMe + other
      batch == transactionsToAdd(settlementModal.personName, settlementModal.balance,
                                 cashReceived, spentForMe, other, now, rs)
      created == IF totalAmount = 0 THEN <<>> ELSE batch
      ran == [op |-> "settle", failed |-> k < Len(created), batch |-> created,
              written |-> k, person |-> settlementModal.personName,
              balance |-> settlementModal.balance, cash |-> cashReceived,
              spent |-> spentForMe, other |-> other, mode |-> "", reported |-> FALSE,
              entered |-> EmptyText, total |-> 0, persons |-> <<>>]
  IN /\ settlementModal # NoModal
     /\ IF totalAmount = 0
        THEN /\ k = 0
             /\ settlementModal' = NoModal
             /\ UNCHANGED <<txStore, transactions>>
        ELSE /\ k \in 0..Len(batch)
             /\ txStore' = PutPrefix(txStore, batch, k)
             /\ IF k = Len(batch)
                THEN /\ transactions' = loadTransactions(txStore')
                     /\ settlementModal' = NoModal
                ELSE UNCHANGED <<transactions, settlementModal>>
     /\ last' = ran
     /\ UNCHANGED <<settingsStore, budgetStore, transactionToDelete, backupFile, atBackup, now,
                    nextUuid>>

\* one Math.random() suffix per created transaction
RandDraws(cashReceived, spentForMe, other) ==
  {rs \in [1..4 -> Rand] :
     /\ cashReceived = 0 => rs[1] = 0
     /\ spentForMe = 0 => rs[2] = 0 /\ rs[3] = 0
     /\ other = 0 => rs[4] = 0}

\* the number of records a settlement creates
BatchLen(cashReceived, spentForMe, other) ==
  (IF cashReceived > 0 THEN 1 ELSE 0) + (IF spentForMe > 0 THEN 2 ELSE 0)
    + (IF other > 0 THEN 1 ELSE 0)

HandleSettleAny ==
  \E cashReceived \in 0..MaxSettle, spentForMe \in 0..MaxSettle, other \in 0..MaxSettle :
    \E rs \in RandDraws(cashReceived, spentForMe, other), k \in 0..4 :
      Fits(0) /\ HandleSettle(cashReceived, spentForMe, other, rs, k)

HandleSettleLedger ==
  \E cashReceived \in 0..MaxSettle, spentForMe \in 0..MaxSettle, other \in 0..MaxSettle :
    \E rs \in RandDraws(cashReceived, spentForMe, other) :
      /\ Fits(BatchLen(cashReceived, spentForMe, other))
      /\ HandleSettle(cashReceived, spentForMe, other, rs,
                      BatchLen(cashReceived, spentForMe, other))

\* handleDeleteClick
DeleteClick ==
  \E i \in 1..Len(transactions) :
    /\ NoModalOpen
    /\ transactionToDelete' = transactions[i]
    /\ last' = Ran("deleteClick", FALSE, <<>>, 0)
    /\ UNCHANGED <<txStore, settingsStore, budgetStore, transactions, settlementModal,
                   backupFile, atBackup, now, nextUuid>>

\* DeleteConfirmationModal onClose
DeleteClose ==
  /\ transactionToDelete # NoTxn
  /\ transactionToDelete' = NoTxn
  /\ last' = Ran("deleteClose", FALSE, <<>>, 0)
  /\ UNCHANGED <<txStore, settingsStore, budgetStore, transactions, settlementModal,
                 backupFile, atBackup, now, nextUuid>>

Abs(x) == IF x < 0 THEN -x ELSE x

\* DeleteConfirmationModal.handleConfirm, then App.handleConfirmDelete;
\* "deleteRejected" is the run that sets the error message and returns
DeleteConfirm(confirmAmount, fails) ==
  LET amountValue == Abs(transactionToDelete.amount)
      amountMatch == parseInt(confirmAmount) = amountValue
  IN /\ transactionToDelete # NoTxn
     /\ IF ~amountMatch
        THEN /\ ~fails
             /\ last' = [Ran("deleteRejected", FALSE, <<>>, 0) EXCEPT !.entered = confirmAmount]
             /\ UNCHANGED <<txStore, transactions, transactionToDelete>>
        ELSE IF fails
        THEN /\ last' = [Ran("delete", TRUE, <<>>, 0) EXCEPT !.entered = confirmAmount]
             /\ UNCHANGED <<txStore, transactions, transactionToDelete>>
        ELSE /\ txStore' = Delete(txStore, transactionToDelete.id)
             /\ transactions' = loadTransactions(txStore')
             /\ transactionToDelete' = NoTxn
             /\ last' = [Ran("delete", FALSE, <<>>, 1) EXCEPT !.entered = confirmAmount]
     /\ UNCHANGED <<settingsStore, budgetStore, settlementModal, backupFile, atBackup, now, nextUuid>>

\* the field left empty, or a number up to MaxAmount, whole or with a half
DeleteConfirmLedger ==
  \E confirmAmount \in {EmptyText} \cup {Entered(w, t) : w \in 0..MaxAmount, t \in {0, 5}} :
    DeleteConfirm(confirmAmount, FALSE)

(* ---------- BudgetPlanner ---------- *)
\* `budget-${Date.now()}`
BudgetId(ms) == [k |-> "budget", n |-> ms, r |-> 0]

NoBudget == [id |-> [k |-> "none", n |-> 0, r |-> 0]]
BudgetName == "groceries"
BudgetColor == "#3B82F6"

\* BudgetPlanner.handleSubmit: create, or replace the budget being edited; a
\* write that throws is caught and reported with an alert
SaveBudget(editingBudget, amount, tags, category, type, startDate, endDate, fails) ==
  LET isEdit == editingBudget # NoBudget
      budget == [id |-> IF isEdit THEN editingBudget.id ELSE BudgetId(now),
                 name |-> BudgetName, amount |-> amount, tags |-> tags,
                 category |-> category, type |-> type,
                 startDate |-> IF type = "custom" THEN startDate ELSE NoDate,
                 endDate |-> IF type = "custom" THEN endDate ELSE NoDate,
                 createdAt |-> IF isEdit THEN editingBudget.createdAt ELSE now,
                 color |-> BudgetColor]
  IN /\ NoModalOpen
     /\ budgetStore' = IF fails THEN budgetStore ELSE Put(budgetStore, budget)
     /\ last' = [Ran("saveBudget", fails, <<>>, IF fails THEN 0 ELSE 1)
                   EXCEPT !.reported = fails]
     /\ UNCHANGED <<txStore, settingsStore, transactions, settlementModal,
                    transactionToDelete, backupFile, atBackup, now, nextUuid>>

\* the calendar of new Date(...): the lengths of the months January to May of a
\* common year; instant 0 is the start of 1 January, the clock is set to UTC
MonthLengths == <<31, 28, 31, 30, 31>>

\* the day on which month m (getMonth(): 0 is January) begins
MonthStartDay(m) ==
  LET f[i \in 0..m] == IF i = 0 THEN 0 ELSE f[i - 1] + MonthLengths[i]
  IN f[m]

\* the day with getMonth() = m and getDate() = d
Day(m, d) == MonthStartDay(m) + d - 1

getMonth(t) ==
  CHOOSE m \in 0..(Len(MonthLengths) - 1) :
    MonthStartDay(m) <= DateKey(t) /\ DateKey(t) < MonthStartDay(m + 1)

getDate(t) == DateKey(t) - MonthStartDay(getMonth(t)) + 1

\* new Date(year, month, 1) and new Date(year, month + 1, 0, 23, 59, 59, 999)
MonthStart(m) == DateTime(MonthStartDay(m))
MonthEnd(m) == DateTime(MonthStartDay(m + 1)) - 1

\* new Date(budget.endDate + 'T23:59:59.999'): the last instant of a day
EndOfDay(date) == DateTime(date + 1) - 1

\* getBudgetSpent, lines 77-87: the window of a budget on the day of `today`
resolveWindow(budget, today) ==
  LET m == getMonth(today)
  IN IF budget.type = "monthly"
     THEN [startDate |-> MonthStart(m), endDate |-> MonthEnd(m)]
     ELSE [startDate |-> IF budget.startDate # NoDate THEN DateTime(budget.startDate)
                         ELSE MonthStart(m),
           endDate |-> IF budget.endDate # NoDate THEN EndOfDay(budget.endDate)
                       ELSE MonthEnd(m)]

\* budget.tags.length === 0 || budget.tags.includes(t.tag)
hasMatchingTag(budget, t) == Len(budget.tags) = 0 \/ t.tag \in Range(budget.tags)

\* mutant: the end of the window excluded (tDate < endDate)
getBudgetSpentEndExcluded(budget, txs, today) ==
  LET w == resolveWindow(budget, today)
  IN SumAmount(SelectSeq(txs, LAMBDA t :
       /\ t.type = "expense"
       /\ hasMatchingTag(budget, t)
       /\ t.occurredAt >= w.startDate /\ t.occurredAt < w.endDate))

getBudgetSpent(budget, txs, today) ==
  LET w == resolveWindow(budget, today)
  IN SumAmount(SelectSeq(txs, LAMBDA t :
       /\ t.type = "expense"
       /\ hasMatchingTag(budget, t)
       /\ t.occurredAt >= w.startDate /\ t.occurredAt <= w.endDate))

\* Math.round(x) for x = num / den, den > 0: the nearest integer, halves up
Round(num, den) == (2 * num + den) \div (2 * den)

\* Math.ceil(num / den), den > 0
Ceil(num, den) == -((-num) \div den)

Max(a, b) == IF a > b THEN a ELSE b

\* mutant: the third comparison turned round (paceRatio < 1.0)
PaceProbabilityTurned(num, den) ==
  IF 10 * num > 15 * den THEN 95
  ELSE IF 10 * num > 12 * den THEN 80
  ELSE IF num < den THEN 65
  ELSE IF 10 * num > 8 * den THEN 30
  ELSE IF 10 * num > 6 * den THEN 10
  ELSE 5

\* the step function of the pace ratio num / den (den > 0), lines 122-127
PaceProbability(num, den) ==
  IF 10 * num > 15 * den THEN 95
  ELSE IF 10 * num > 12 * den THEN 80
  ELSE IF num > den THEN 65
  ELSE IF 10 * num > 8 * den THEN 30
  ELSE IF 10 * num > 6 * den THEN 10
  ELSE 5

\* mutant: the probability is not raised to 100 when the budget is overspent
getBudgetProgressNoOverride(budget, txs, today) ==
  LET monthEnd == DateTime(MonthStartDay(getMonth(today) + 1) - 1)
      daysInMonth == MonthLengths[getMonth(today) + 1]
      currentDay == getDate(today)
      daysLeftCount == Max(1, Ceil(monthEnd - today, DayLength))
      spent == getBudgetSpent(budget, txs, today)
      percentage == Round(spent * 100, budget.amount)
      daysPassed == Max(1, currentDay)
      byPace == IF spent > 0
                THEN PaceProbability(spent * daysInMonth, daysPassed * budget.amount)
                ELSE 0
  IN [spent |-> spent, percentage |-> percentage, isOverBudget |-> spent > budget.amount,
      daysLeft |-> daysLeftCount, dailyBurnRate |-> <<spent, daysPassed>>,
      overspendProbability |-> byPace]

\* mutant: the percentage taken of the remaining amount
getBudgetProgressRemaining(budget, txs, today) ==
  LET monthEnd == DateTime(MonthStartDay(getMonth(today) + 1) - 1)
      daysInMonth == MonthLengths[getMonth(today) + 1]
      currentDay == getDate(today)
      daysLeftCount == Max(1, Ceil(monthEnd - today, DayLength))
      spent == getBudgetSpent(budget, txs, today)
      percentage == Round((budget.amount - spent) * 100, budget.amount)
      daysPassed == Max(1, currentDay)
      byPace == IF spent > 0
                THEN PaceProbability(spent * daysInMonth, daysPassed * budget.amount)
                ELSE 0
  IN [spent |-> spent, percentage |-> percentage, isOverBudget |-> spent > budget.amount,
      daysLeft |-> daysLeftCount, dailyBurnRate |-> <<spent, daysPassed>>,
      overspendProbability |-> IF spent > budget.amount THEN 100 ELSE byPace]

\* getBudgetProgress for a budget amount > 0; dailyBurnRate is the quotient
\* spent / daysPassed, kept as numerator and denominator
getBudgetProgress(budget, txs, today) ==
  LET monthEnd == DateTime(MonthStartDay(getMonth(today) + 1) - 1)
      daysInMonth == MonthLengths[getMonth(today) + 1]
      currentDay == getDate(today)
      daysLeftCount == Max(1, Ceil(monthEnd - today, DayLength))
      spent == getBudgetSpent(budget, txs, today)
      percentage == Round(spent * 100, budget.amount)
      daysPassed == Max(1, currentDay)
      byPace == IF spent > 0
                THEN PaceProbability(spent * daysInMonth, daysPassed * budget.amount)
                ELSE 0
  IN [spent |-> spent, percentage |-> percentage, isOverBudget |-> spent > budget.amount,
      daysLeft |-> daysLeftCount, dailyBurnRate |-> <<spent, daysPassed>>,
      overspendProbability |-> IF spent > budget.amount THEN 100 ELSE byPace]

\* BudgetPlanner.loadData: getBudgets() without a month is db.getAll
getBudgets(store) == getAll(store)

\* `${now.getFullYear()}-${String(now.getMonth() + 1).padStart(2, '0')}`: the
\* month of the clock; a budget saved by the form has no month field
isCurrentMonth(b, today) == "month" \in DOMAIN b /\ b.month = getMonth(today)

NoSummary == [spent |-> 0, budget |-> 0, percentage |-> 0, budgets |-> <<>>]

\* mutant: the budgets of a custom range are counted too
categoryBudgetsAnyType(budgets, today) == budgets

\* categorySummaries, lines 153-157: the budgets that are summed up
categoryBudgets(budgets, today) ==
  SelectSeq(budgets, LAMBDA b :
    IF b.type # "monthly" THEN FALSE
    ELSE isCurrentMonth(b, today) \/ b.type = "monthly")

\* categorySummaries, lines 159-173
categorySummaries(budgets, txs, today) ==
  LET chosen == categoryBudgets(budgets, today)
      add(summaries, budget) ==
        LET old == summaries[budget.category]
        IN [summaries EXCEPT ![budget.category] =
              [old EXCEPT !.budget = old.budget + budget.amount,
                          !.spent = old.spent + getBudgetProgress(budget, txs, today).spent,
                          !.budgets = Append(old.budgets, budget)]]
      f[i \in 0..Len(chosen)] ==
        IF i = 0 THEN [needs |-> NoSummary, wants |-> NoSummary, investment |-> NoSummary]
        ELSE add(f[i - 1], chosen[i])
      summed == f[Len(chosen)]
  IN [cat \in {"needs", "wants", "investment"} |->
        IF summed[cat].budget > 0
        THEN [summed[cat] EXCEPT !.percentage = Round(summed[cat].spent * 100,
                                                      summed[cat].budget)]
        ELSE summed[cat]]

\* mutant: the percentages compared the other way round
compareBudgetsAscending(a, b, txs, today) ==
  LET progressA == getBudgetProgress(a, txs, today)
      progressB == getBudgetProgress(b, txs, today)
  IN IF progressA.isOverBudget /\ ~progressB.isOverBudget THEN -1
     ELSE IF ~progressA.isOverBudget /\ progressB.isOverBudget THEN 1
     ELSE progressA.percentage - progressB.percentage

\* the comparator of sortedBudgets, lines 179-185
compareBudgets(a, b, txs, today) ==
  LET progressA == getBudgetProgress(a, txs, today)
      progressB == getBudgetProgress(b, txs, today)
  IN IF progressA.isOverBudget /\ ~progressB.isOverBudget THEN -1
     ELSE IF ~progressA.isOverBudget /\ progressB.isOverBudget THEN 1
     ELSE progressB.percentage - progressA.percentage

\* [...budgets].sort(compare): stable, a budget goes behind those it does not precede
sortedBudgets(budgets, txs, today) ==
  LET insert(acc, x) ==
        LET p == Cardinality({j \in 1..Len(acc) : compareBudgets(acc[j], x, txs, today) <= 0})
        IN SubSeq(acc, 1, p) \o <<x>> \o SubSeq(acc, p + 1, Len(acc))
      f[i \in 0..Len(budgets)] == IF i = 0 THEN <<>> ELSE insert(f[i - 1], budgets[i])
  IN f[Len(budgets)]

\* mutant: deleting a budget clears the transactions as well
DeleteBudgetAndTransactions(id, fails) ==
  /\ NoModalOpen
  /\ budgetStore' = IF fails THEN budgetStore ELSE Delete(budgetStore, id)
  /\ txStore' = IF fails THEN txStore ELSE {}
  /\ last' = [Ran("deleteBudget", fails, <<>>, IF fails THEN 0 ELSE 1)
                EXCEPT !.reported = fails]
  /\ UNCHANGED <<settingsStore, transactions, settlementModal,
                 transactionToDelete, backupFile, atBackup, now, nextUuid>>

\* BudgetPlanner.handleDelete, once window.confirm was accepted
DeleteBudget(id, fails) ==
  /\ NoModalOpen
  /\ budgetStore' = IF fails THEN budgetStore ELSE Delete(budgetStore, id)
  /\ last' = [Ran("deleteBudget", fails, <<>>, IF fails THEN 0 ELSE 1)
                EXCEPT !.reported = fails]
  /\ UNCHANGED <<txStore, settingsStore, transactions, settlementModal,
                 transactionToDelete, backupFile, atBackup, now, nextUuid>>

(* ---------- settings ---------- *)
\* App.handleSaveSettings -> saveSettings(tags, names)
SaveSettings(tags, names) ==
  /\ NoModalOpen
  /\ settingsStore' = [id |-> "user-settings", tags |-> tags, names |-> names,
                       initialized |-> FALSE]
  /\ last' = Ran("saveSettings", FALSE, <<>>, 1)
  /\ UNCHANGED <<txStore, budgetStore, transactions, settlementModal,
                 transactionToDelete, backupFile, atBackup, now, nextUuid>>

(* ---------- backup and restore ---------- *)
\* createBackup: what it returns for the given stores
createBackup(tx, settings, budgets, ms) ==
  [version |-> 2, exportedAt |-> ms, transactions |-> getAll(tx),
   settings |-> IF settings = NoSettings THEN [tags |-> <<>>, names |-> <<>>]
                ELSE [tags |-> settings.tags, names |-> settings.names],
   budgets |-> getAll(budgets), investmentGoals |-> <<>>]

\* SettingsModal.handleBackup
CreateBackup ==
  /\ NoModalOpen
  /\ backupFile' = createBackup(txStore, settingsStore, budgetStore, now)
  /\ atBackup' = [version |-> 2, tx |-> txStore, budgets |-> budgetStore,
                  settings |-> getSettings(settingsStore)]
  /\ last' = Ran("backup", FALSE, <<>>, 0)
  /\ UNCHANGED <<txStore, settingsStore, budgetStore, transactions, settlementModal,
                 transactionToDelete, now, nextUuid>>

\* restoreFromBackup: the storage operations it awaits, in order
StoreOp(op, rec) == [op |-> op, rec |-> rec]

\* mutant: replace mode does not clear the transactions
restoreOpsKeepTransactions(data, mode) ==
  (IF mode = "replace"
     THEN <<StoreOp("clearSettings", NoTxn), StoreOp("clearBudgets", NoTxn),
            StoreOp("clearGoals", NoTxn)>>
     ELSE <<>>)
  \o <<StoreOp("putSettings", data.settings)>>
  \o [i \in 1..Len(data.budgets) |-> StoreOp("putBudget", data.budgets[i])]
  \o [i \in 1..Len(data.investmentGoals) |-> StoreOp("putGoal", data.investmentGoals[i])]
  \o [i \in 1..Len(data.transactions) |->
        StoreOp(IF mode = "merge" THEN "putTransactionIfAbsent" ELSE "putTransaction",
                data.transactions[i])]

restoreOps(data, mode) ==
  (IF mode = "replace"
     THEN <<StoreOp("clearTransactions", NoTxn), StoreOp("clearSettings", NoTxn),
            StoreOp("clearBudgets", NoTxn), StoreOp("clearGoals", NoTxn)>>
     ELSE <<>>)
  \o <<StoreOp("putSettings", data.settings)>>
  \o [i \in 1..Len(data.budgets) |-> StoreOp("putBudget", data.budgets[i])]
  \o [i \in 1..Len(data.investmentGoals) |-> StoreOp("putGoal", data.investmentGoals[i])]
  \o [i \in 1..Len(data.transactions) |->
        StoreOp(IF mode = "merge" THEN "putTransactionIfAbsent" ELSE "putTransaction",
                data.transactions[i])]

\* mutant: merge overwrites a stored transaction instead of skipping it
ApplyOpOverwrite(db, o) ==
  CASE o.op = "clearTransactions" -> [db EXCEPT !.tx = {}]
    [] o.op = "clearSettings" -> [db EXCEPT !.settings = NoSettings]
    [] o.op = "clearBudgets" -> [db EXCEPT !.budgets = {}]
    [] o.op = "putSettings" ->
         [db EXCEPT !.settings = [id |-> "user-settings", tags |-> o.rec.tags,
                                  names |-> o.rec.names, initialized |-> TRUE]]
    [] o.op = "putBudget" -> [db EXCEPT !.budgets = Put(db.budgets, o.rec)]
    [] o.op \in {"putTransaction", "putTransactionIfAbsent"} ->
         [db EXCEPT !.tx = Put(db.tx, o.rec)]
    [] OTHER -> db

ApplyOp(db, o) ==
  CASE o.op = "clearTransactions" -> [db EXCEPT !.tx = {}]
    [] o.op = "clearSettings" -> [db EXCEPT !.settings = NoSettings]
    [] o.op = "clearBudgets" -> [db EXCEPT !.budgets = {}]
    [] o.op = "putSettings" ->
         [db EXCEPT !.settings = [id |-> "user-settings", tags |-> o.rec.tags,
                                  names |-> o.rec.names, initialized |-> TRUE]]
    [] o.op = "putBudget" -> [db EXCEPT !.budgets = Put(db.budgets, o.rec)]
    [] o.op = "putTransaction" -> [db EXCEPT !.tx = Put(db.tx, o.rec)]
    [] o.op = "putTransactionIfAbsent" ->
         IF \E x \in db.tx : x.id = o.rec.id THEN db
         ELSE [db EXCEPT !.tx = Put(db.tx, o.rec)]
    [] OTHER -> db

ApplyOps(db, ops, k) ==
  LET f[i \in 0..k] == IF i = 0 THEN db ELSE ApplyOp(f[i - 1], ops[i])
  IN f[k]

\* SettingsModal.handleRestoreFile with the exported file: the first k storage
\* operations succeed; when one throws, the rest is skipped and an alert is shown
Restore(restoreMode, k) ==
  LET ops == restoreOps(backupFile, restoreMode)
      db == ApplyOps([tx |-> txStore, settings |-> settingsStore,
                      budgets |-> budgetStore], ops, k)
      failed == k < Len(ops)
  IN /\ NoModalOpen
     /\ backupFile.version # 0
     /\ k \in 0..Len(ops)
     /\ txStore' = db.tx
     /\ settingsStore' = db.settings
     /\ budgetStore' = db.budgets
     /\ transactions' = IF failed THEN transactions ELSE loadTransactions(txStore')
     /\ last' = [Ran("restore", failed, <<>>, k) EXCEPT !.mode = restoreMode,
                                                         !.reported = failed]
     /\ UNCHANGED <<settlementModal, transactionToDelete, backupFile, atBackup, now,
                    nextUuid>>

(* ---------- runs of backup and restore ---------- *)
BackupPerson == defaultNames[2]
SettingsChoices ==
  {[tags |-> defaultTags, names |-> defaultNames],
   [tags |-> <<defaultTags[1]>>, names |-> <<defaultNames[1], defaultNames[2]>>]}
MaxOps == 5 + MaxBudgets + MaxTxns

AddBackup ==
  \E type \in {"income", "expense"} :
    Fits(1) /\ SubmitForm(NoTxn, MaxAmount, type, defaultTags[1], BackupPerson, 0, FALSE)

EditBackup ==
  \E initialData \in Range(transactions), type \in {"income", "expense"} :
    SubmitForm(initialData, MaxAmount, type, defaultTags[1], BackupPerson, 0, FALSE)

DeleteConfirmBackup == DeleteConfirm(Entered(MaxAmount, 0), FALSE)

SaveBudgetBackup ==
  \E editingBudget \in {NoBudget} \cup budgetStore, category \in {"needs", "wants"} :
    /\ editingBudget = NoBudget => Cardinality(Put(budgetStore, [id |-> BudgetId(now)]))
                                     <= MaxBudgets
    /\ SaveBudget(editingBudget, MaxAmount, <<>>, category, "monthly", NoDate, NoDate, FALSE)

DeleteBudgetBackup == \E b \in budgetStore : DeleteBudget(b.id, FALSE)

SaveSettingsBackup == \E c \in SettingsChoices : SaveSettings(c.tags, c.names)

RestoreAny == \E restoreMode \in {"replace", "merge"}, k \in 0..MaxOps : Restore(restoreMode, k)

(* ---------- runs of the dashboard ---------- *)
SummaryPersons == {defaultNames[1], defaultNames[2]}
\* two instants of one day and the first instant of the next
SummaryTimes == {0, DayLength - 1, DayLength}

AddSummary ==
  \E amount \in 1..MaxAmount, type \in {"income", "expense"}, tag \in FormTags,
     person \in SummaryPersons, occurredAt \in SummaryTimes :
    Fits(1) /\ SubmitForm(NoTxn, amount, type, tag, person, occurredAt, FALSE)

(* ---------- runs of the budget planner ---------- *)
\* the budget and the spending of the worked example: 5000 budgeted, 4500 spent
Example == [amount |-> 5000, spent |-> 4500]

\* BudgetPlanner.loadData: the planner's own copy of the stored transactions
plannerTransactions == getAllTransactions(txStore)

\* the planner opened on 1, 20, 25 or 30 April
ProgressNows == {DateTime(Day(3, d)) : d \in {1, 20, 25, 30}}
ProgressAmounts == (1..MaxAmount) \cup {Example.spent}
BudgetAmounts == (1..(MaxAmount + 1)) \cup {Example.amount}

\* the state in which the planner is opened at one of the given instants
InitAt(nows) ==
  /\ txStore = {}
  /\ settingsStore = [id |-> "user-settings", tags |-> defaultTags,
                      names |-> defaultNames, initialized |-> FALSE]
  /\ budgetStore = {}
  /\ transactions = <<>>
  /\ settlementModal = NoModal
  /\ transactionToDelete = NoTxn
  /\ backupFile = NoBackup
  /\ atBackup = NoBackup
  /\ now \in nows
  /\ nextUuid = 0
  /\ last = NoLast

InitProgress == InitAt(ProgressNows)

AddProgress ==
  \E amount \in ProgressAmounts, type \in {"income", "expense"} :
    Fits(1) /\ SubmitForm(NoTxn, amount, type, defaultTags[1], Myself, MonthStart(3), FALSE)

EditProgress ==
  \E initialData \in Range(transactions), amount \in ProgressAmounts,
     type \in {"income", "expense"} :
    SubmitForm(initialData, amount, type, defaultTags[1], Myself, MonthStart(3), FALSE)

SaveBudgetProgress ==
  \E editingBudget \in {NoBudget} \cup budgetStore, amount \in BudgetAmounts :
    SaveBudget(editingBudget, amount, <<defaultTags[1]>>, "needs", "monthly", NoDate, NoDate,
               FALSE)

\* the planner opened on 20 April; transactions at the last instant of March,
\* the first and the last instant of April and the first instant of May
SpentNows == {DateTime(Day(3, 20))}
SpentTimes == {MonthEnd(2), MonthStart(3), MonthEnd(3), MonthStart(4)}
\* formStartDate, formEndDate: left empty, 1 April or 30 April
SpentDates == {NoDate, Day(3, 1), Day(3, 30)}
SpentTags == {<<>>, <<defaultTags[1]>>}

InitSpent == InitAt(SpentNows)

AddSpent ==
  \E amount \in {MaxAmount}, type \in {"income", "expense"}, tag \in FormTags,
     occurredAt \in SpentTimes :
    Fits(1) /\ SubmitForm(NoTxn, amount, type, tag, Myself, occurredAt, FALSE)

SaveBudgetSpent ==
  \E editingBudget \in {NoBudget} \cup budgetStore, tags \in SpentTags,
     type \in {"monthly", "custom"}, startDate \in SpentDates, endDate \in SpentDates :
    /\ type = "monthly" => startDate = NoDate /\ endDate = NoDate
    /\ editingBudget = NoBudget => Cardinality(Put(budgetStore, [id |-> BudgetId(now)]))
                                     <= MaxBudgets
    /\ SaveBudget(editingBudget, MaxAmount, tags, "needs", type, startDate, endDate, FALSE)

\* a budget of a backup file: a Budget (types.ts) with its month field set
FileBudget(month) ==
  [id |-> BudgetId(0), name |-> BudgetName, amount |-> MaxAmount, tags |-> <<>>,
   category |-> "needs", type |-> "monthly", month |-> month, startDate |-> NoDate,
   endDate |-> NoDate, createdAt |-> 0, color |-> BudgetColor]

\* SettingsModal.handleRestoreFile with a chosen file, every storage operation
\* succeeding
RestoreFile(data, restoreMode) ==
  LET ops == restoreOps(data, restoreMode)
      db == ApplyOps([tx |-> txStore, settings |-> settingsStore,
                      budgets |-> budgetStore], ops, Len(ops))
  IN /\ NoModalOpen
     /\ txStore' = db.tx
     /\ settingsStore' = db.settings
     /\ budgetStore' = db.budgets
     /\ transactions' = loadTransactions(txStore')
     /\ last' = [Ran("restoreFile", FALSE, <<>>, Len(ops)) EXCEPT !.mode = restoreMode]
     /\ UNCHANGED <<settlementModal, transactionToDelete, backupFile, atBackup, now,
                    nextUuid>>

\* a merge restore of a file that holds one budget for March or for April
RestoreBudgetSpent ==
  \E month \in {2, 3} :
    LET data == [version |-> 2, exportedAt |-> 0, transactions |-> <<>>,
                 settings |-> getSettings(settingsStore),
                 budgets |-> <<FileBudget(month)>>, investmentGoals |-> <<>>]
    IN /\ Cardinality(Put(budgetStore, FileBudget(month))) <= MaxBudgets
       /\ RestoreFile(data, "merge")

(* ---------- runs of the budget overview ---------- *)
\* BudgetPlanner.loadData: the planner's copy of the stored budgets
plannerBudgets == getBudgets(budgetStore)

\* the clock moves on between two budgets that are created (`budget-${Date.now()}`)
TickPlanner ==
  /\ \E b \in budgetStore : b.id = BudgetId(now)
  /\ Cardinality(budgetStore) < MaxPlanned
  /\ now' = now + 1
  /\ UNCHANGED <<txStore, settingsStore, budgetStore, transactions, settlementModal,
                 transactionToDelete, backupFile, atBackup, nextUuid, last>>

\* expenses of April
AddPlanner ==
  \E amount \in 1..(MaxAmount + 1) :
    \E tag \in FormTags :
      Fits(1) /\ SubmitForm(NoTxn, amount, "expense", tag, Myself, MonthStart(3), FALSE)

SaveBudgetPlanner ==
  \E editingBudget \in {NoBudget} \cup budgetStore, amount \in 1..(MaxAmount + 1),
     category \in {"needs", "wants", "investment"}, type \in {"monthly", "custom"} :
    \E tags \in SpentTags :
      SaveBudget(editingBudget, amount, tags, category, type, NoDate, NoDate, FALSE)

(* ---------- runs with a restored file ---------- *)
\* a file picked for restore that holds one transaction; handleRestoreFile tests
\* only that version, transactions and settings are present
FileTransaction(amount, type) ==
  [id |-> Uuid(MaxUuid), occurredAt |-> 0, amount |-> amount, type |-> type,
   name |-> FormName, tag |-> defaultTags[1], person |-> defaultNames[2]]

RestoreFileLedger ==
  \E amount \in (-MaxAmount)..MaxAmount, type \in {"income", "expense"},
     restoreMode \in {"replace", "merge"} :
    LET data == [version |-> 2, exportedAt |-> 0,
                 transactions |-> <<FileTransaction(amount, type)>>,
                 settings |-> getSettings(settingsStore), budgets |-> <<>>,
                 investmentGoals |-> <<>>]
    IN /\ restoreMode = "merge" => Cardinality(Put(txStore, FileTransaction(amount, type)))
                                     <= MaxTxns
       /\ RestoreFile(data, restoreMode)

(* ---------- runs with failing writes ---------- *)
AddAny ==
  \E type \in {"income", "expense"}, fails \in BOOLEAN :
    Fits(1) /\ SubmitForm(NoTxn, MaxAmount, type, defaultTags[1], BackupPerson, 0, fails)

EditAny ==
  \E initialData \in Range(transactions), type \in {"income", "expense"},
     fails \in BOOLEAN :
    SubmitForm(initialData, MaxAmount, type, defaultTags[1], BackupPerson, 0, fails)

SaveBudgetAny ==
  \E editingBudget \in {NoBudget} \cup budgetStore, fails \in BOOLEAN :
    SaveBudget(editingBudget, MaxAmount, <<>>, "needs", "monthly", NoDate, NoDate, fails)

DeleteBudgetAny == \E b \in budgetStore, fails \in BOOLEAN : DeleteBudget(b.id, fails)

(* ---------- runs of the net worth chart ---------- *)
\* the dashboard opened on 20 April, at midnight or half a day later
InitWindow == InitAt({DateTime(Day(3, 20)), DateTime(Day(3, 20)) + 1})

\* transactions of 1 January, of 20 January and 21 March (90 and 30 days before
\* 20 April; either half of 21 March) and of 20 April
AddWindow ==
  \E type \in {"income", "expense"}, tag \in FormTags, person \in SummaryPersons,
     occurredAt \in {DateTime(Day(0, 1)), DateTime(Day(0, 20)), DateTime(Day(2, 21)),
                     DateTime(Day(2, 21)) + 1, DateTime(Day(3, 20))} :
    Fits(1) /\ SubmitForm(NoTxn, MaxAmount, type, tag, person, occurredAt, FALSE)

Next ==
  \/ AddLedger
  \/ EditLedger
  \/ SubmitGroupLedger
  \/ OpenSettlementModal
  \/ CloseSettlementModal
  \/ HandleSettleLedger
  \/ DeleteClick
  \/ DeleteClose
  \/ DeleteConfirmLedger

Spec == Init /\ [][Next]_vars

NextSettle ==
  \/ Tick
  \/ AddLedger
  \/ OpenSettlementModal
  \/ CloseSettlementModal
  \/ HandleSettleAny

SpecSettle == Init /\ [][NextSettle]_vars

NextBackup ==
  \/ AddBackup
  \/ EditBackup
  \/ DeleteClick
  \/ DeleteConfirmBackup
  \/ SaveBudgetBackup
  \/ DeleteBudgetBackup
  \/ SaveSettingsBackup
  \/ CreateBackup
  \/ RestoreAny

SpecBackup == Init /\ [][NextBackup]_vars

NextProgress ==
  \/ AddProgress
  \/ EditProgress
  \/ SaveBudgetProgress

SpecProgress == InitProgress /\ [][NextProgress]_vars

NextSpent ==
  \/ AddSpent
  \/ SaveBudgetSpent
  \/ RestoreBudgetSpent

SpecSpent == InitSpent /\ [][NextSpent]_vars

NextSummary == AddSummary

SpecSummary == Init /\ [][NextSummary]_vars

NextPlanner ==
  \/ TickPlanner
  \/ AddPlanner
  \/ SaveBudgetPlanner

SpecPlanner == InitSpent /\ [][NextPlanner]_vars

NextFile ==
  \/ AddLedger
  \/ EditLedger
  \/ SubmitGroupLedger
  \/ OpenSettlementModal
  \/ CloseSettlementModal
  \/ HandleSettleLedger
  \/ DeleteClick
  \/ DeleteClose
  \/ DeleteConfirmLedger
  \/ RestoreFileLedger

SpecFile == Init /\ [][NextFile]_vars

NextFailure ==
  \/ AddAny
  \/ EditAny
  \/ OpenSettlementModal
  \/ CloseSettlementModal
  \/ HandleSettleAny
  \/ SaveBudgetAny
  \/ DeleteBudgetAny

SpecFailure == Init /\ [][NextFailure]_vars

NextWindow == AddWindow

SpecWindow == InitWindow /\ [][NextWindow]_vars

(* ---------- properties ---------- *)
Ids(store) == {x.id : x \in store}

SettleRan(l) == l.op = "settle"
SpentForMeOnly(l) == SettleRan(l) /\ l.cash = 0 /\ l.other = 0 /\ l.spent > 0

\* C1: in every reachable state the ledger's net balance over all persons
\* (sum of totalOwed - totalOwing) equals the summary's settlementExpenses -
\* settlementIncome and the settlementTotal App hands to the Dashboard
LedgerAgreesWithSummary ==
  /\ netBalanceAll(transactions) = allTimeSettlement(transactions)
  /\ netBalanceAll(transactions) = settlementTotal(transactions)

\* the list holds a settlement record and a personal ("Myself") record, and a
\* counterparty's balance is open
LedgerAgreesWitness ==
  /\ \E i \in 1..Len(transactions) : transactions[i].tag = SettlementTag
  /\ \E i \in 1..Len(transactions) : transactions[i].person = Myself
  /\ settlementTotal(transactions) # 0

\* C2: a settlement whose write fails leaves the store as it was before the
\* settlement (none of the batch is stored)
SettleAtomic ==
  [][(SettleRan(last') /\ last'.failed) => txStore' = txStore]_vars

\* C3: a restore in which a storage operation fails leaves the stored
\* transactions, budgets and settings as they were before the restore
RestoreAtomic ==
  [][(last'.op = "restore" /\ last'.failed)
       => UNCHANGED <<txStore, settingsStore, budgetStore>>]_vars

\* C4: after a restore in replace mode that ran to its end, the stored
\* transactions, budgets and settings (tags, names) are those the stores held
\* when the backup was made
RoundTripReplace ==
  (last.op = "restore" /\ last.mode = "replace" /\ ~last.failed)
    => /\ txStore = atBackup.tx
       /\ budgetStore = atBackup.budgets
       /\ getSettings(settingsStore) = atBackup.settings

\* a replace restore of a backup that holds transactions, a budget and edited
\* settings
RoundTripWitness ==
  /\ last.op = "restore" /\ last.mode = "replace" /\ ~last.failed
  /\ atBackup.tx # {} /\ atBackup.budgets # {}
  /\ atBackup.settings.names # defaultNames

\* C5: a merge restore that ran to its end keeps every stored transaction as it
\* was, makes the stored ids the union of the old ids and the backup's ids, and
\* stores the backup's settings
MergeKeepsStored ==
  [][(last'.op = "restore" /\ last'.mode = "merge" /\ ~last'.failed)
       => /\ txStore \subseteq txStore'
          /\ Ids(txStore') = Ids(txStore) \cup Ids(Range(backupFile.transactions))
          /\ getSettings(settingsStore') = backupFile.settings]_vars

\* a merge restore that skipped a backup record whose id was stored with other
\* field values, and loaded one that was not stored
MergeWitness ==
  /\ last.op = "restore" /\ last.mode = "merge" /\ ~last.failed
  /\ \E t \in txStore : \E b \in Range(backupFile.transactions) : t.id = b.id /\ t # b
  /\ Cardinality(txStore) > 1

\* C6: a settlement with only spentForMe > 0 creates exactly two transactions of
\* that amount tagged "Settlement", an income against the counterparty and an
\* expense against "Myself", and the ledger balances are the same with and
\* without the "Myself" expense
SpentForMePair ==
  [][SpentForMeOnly(last')
       => LET b == last'.batch
          IN /\ Len(b) = 2
             /\ \A i \in 1..2 : b[i].amount = last'.spent /\ b[i].tag = SettlementTag
             /\ \E i, j \in 1..2 :
                  /\ i # j
                  /\ b[i].type = "income" /\ b[i].person = last'.person
                  /\ b[j].type = "expense" /\ b[j].person = Myself
                  /\ ~last'.failed
                       => personBalances(loadTransactions(txStore'))
                            = personBalances(loadTransactions(Put(txStore, b[i])))]_vars

SpentForMeWitness == SpentForMeOnly(last) /\ ~last.failed

\* C7: a settlement with other > 0 creates exactly one "other" transaction: it
\* is against the counterparty, for that amount, of type income when the balance
\* passed to the settlement is > 0 and expense otherwise; alone in the batch
\* when cash and spentForMe are 0
OtherLeg ==
  (SettleRan(last) /\ last.other > 0)
    => LET os == SelectSeq(last.batch, LAMBDA t : t.id.k = "other")
       IN /\ Len(os) = 1
          /\ os[1].person = last.person
          /\ os[1].amount = last.other
          /\ os[1].type = IF last.balance > 0 THEN "income" ELSE "expense"
          /\ (last.cash = 0 /\ last.spent = 0) => Len(last.batch) = 1

\* the user owed the counterparty and settled with "other"
OtherLegWitness == SettleRan(last) /\ last.other > 0 /\ last.balance < 0 /\ ~last.failed

\* C8: a settlement with all three amounts 0 creates no transaction and leaves
\* the store as it was
SettleZeroNoOp ==
  [][(SettleRan(last') /\ last'.cash = 0 /\ last'.spent = 0 /\ last'.other = 0)
       => last'.batch = <<>> /\ txStore' = txStore]_vars

SettleZeroWitness ==
  SettleRan(last) /\ last.cash = 0 /\ last.spent = 0 /\ last.other = 0 /\ txStore # {}

\* C9: the amounts of the transactions a settlement creates, the "Myself"
\* expense left out, add up to cash + spentForMe + other
SettleConserves ==
  SettleRan(last)
    => SumAmount(SelectSeq(last.batch, LAMBDA t : t.person # Myself))
         = last.cash + last.spent + last.other

SettleConservesWitness ==
  SettleRan(last) /\ last.cash > 0 /\ last.spent > 0 /\ last.other > 0 /\ ~last.failed

\* C10: the ids of the transactions a settlement creates differ from each other
\* and from every id already stored
SettleIdsFresh ==
  [][SettleRan(last')
       => LET b == last'.batch
          IN /\ \A i, j \in 1..Len(b) : i # j => b[i].id # b[j].id
             /\ \A i \in 1..Len(b) : b[i].id \notin Ids(txStore)]_vars

\* C11: personBalances holds exactly one entry per person, other than "Myself",
\* who has a transaction in the list (none for "Myself", none for anyone else);
\* an entry's totalOwed is the sum of that person's expense amounts and its
\* totalOwing the sum of that person's income amounts
OneEntryPerPerson ==
  LET pb == personBalances(transactions)
      people == {transactions[i].person : i \in 1..Len(transactions)} \ {Myself}
      of(p, ty) == SelectSeq(transactions, LAMBDA t : t.person = p /\ t.type = ty)
  IN /\ {pb[i].name : i \in 1..Len(pb)} = people
     /\ Len(pb) = Cardinality(people)
     /\ \A i \in 1..Len(pb) :
          /\ pb[i].totalOwed = SumAmount(of(pb[i].name, "expense"))
          /\ pb[i].totalOwing = SumAmount(of(pb[i].name, "income"))

\* the list holds a transaction of the user and one of a counterparty
OneEntryWitness ==
  /\ \E i \in 1..Len(transactions) : transactions[i].person = Myself
  /\ Len(personBalances(transactions)) = 1
  /\ personBalances(transactions)[1].totalOwed > 0

\* C12: personBalances is ordered by non-increasing net balance: each entry's
\* totalOwed - totalOwing is >= that of the entry after it
BalancesDescending ==
  LET pb == personBalances(transactions)
  IN \A i \in 1..(Len(pb) - 1) : netBalance(pb[i]) >= netBalance(pb[i + 1])

\* two counterparties whose order of first appearance is the reverse of their
\* order by net balance
BalancesDescendingWitness ==
  LET pb == personBalances(transactions)
  IN /\ Len(pb) = 2
     /\ netBalance(pb[1]) > netBalance(pb[2])
     /\ PersonOrder(transactions)[1] = pb[2].name

\* C13: the investments figure of currentValues and of every point of the series
\* is the sum of the amounts of the Investment-tagged transactions (up to that
\* point's day), whatever their type, and so equals allTimeStats' investments
InvestmentsAgree ==
  LET tagged(upTo) ==
        SumAmount(SelectSeq(transactions, LAMBDA t : /\ t.tag = InvestmentTag
                                                      /\ DateKey(t.occurredAt) <= upTo))
      series == allData(transactions)
  IN /\ currentValues(transactions, settlementTotal(transactions)).investments
          = allTimeStats(transactions).investments
     /\ \A i \in 1..Len(series) : series[i].investments = tagged(series[i].date)

\* C14: in allTimeStats, in currentValues (settlement passed in by App, or left
\* at its default of 0) and in every point of the series, netWorth = balance +
\* investments + settlement; the balance of the first two, and of the last
\* point, is the sum of all income minus the sum of all expenses
NetWorthIdentity ==
  LET all == allTimeStats(transactions)
      cur == currentValues(transactions, settlementTotal(transactions))
      cur0 == currentValues(transactions, 0)
      series == allData(transactions)
      total == SumAmount(FilterType(transactions, "income"))
                 - SumAmount(FilterType(transactions, "expense"))
      adds(r) == r.netWorth = r.balance + r.investments + r.settlement
  IN /\ adds(all) /\ all.balance = total
     /\ adds(cur) /\ cur.balance = total /\ cur.settlement = settlementTotal(transactions)
     /\ adds(cur0) /\ cur0.balance = total /\ cur0.settlement = 0
     /\ \A i \in 1..Len(series) : adds(series[i])
     /\ series # <<>> => series[Len(series)].balance = total

\* an Investment-tagged expense of the user and a counterparty's transaction:
\* the three summands are all non-zero
NetWorthWitness ==
  LET all == allTimeStats(transactions)
  IN /\ all.investments > 0 /\ all.settlement # 0 /\ all.balance # 0
     /\ Len(allData(transactions)) = 2

\* the lists that hold the elements of s in another order
Reorderings(s) ==
  {[i \in 1..Len(s) |-> s[p[i]]] : p \in {q \in [1..Len(s) -> 1..Len(s)] :
                                           \A i, j \in 1..Len(s) : i # j => q[i] # q[j]}}

\* C15: the series before the window filter holds one point per day on which a
\* transaction occurred, in strictly ascending order of day, and a point's
\* balance, investments and settlement are the totals over the transactions of
\* that day and the days before; every reordering of the list gives the same
\* series
OnePointPerDay ==
  LET series == allData(transactions)
      days == {DateKey(transactions[i].occurredAt) : i \in 1..Len(transactions)}
      upTo(d) == SelectSeq(transactions, LAMBDA t : DateKey(t.occurredAt) <= d)
      sum(d, ty, others) ==
        SumAmount(SelectSeq(upTo(d), LAMBDA t : /\ t.type = ty
                                                /\ others => t.person # Myself))
      invested(d) ==
        SumAmount(SelectSeq(upTo(d), LAMBDA t : t.type = "expense" /\ t.tag = InvestmentTag))
  IN /\ {series[i].date : i \in 1..Len(series)} = days
     /\ \A i \in 1..(Len(series) - 1) : series[i].date < series[i + 1].date
     /\ \A i \in 1..Len(series) :
          LET d == series[i].date
          IN /\ series[i].balance = sum(d, "income", FALSE) - sum(d, "expense", FALSE)
             /\ series[i].investments = invested(d)
             /\ series[i].settlement = sum(d, "expense", TRUE) - sum(d, "income", TRUE)
     /\ \A r \in Reorderings(transactions) : allData(r) = series

\* two transactions at different instants of one day, the later one first in
\* the list
OnePointPerDayWitness ==
  /\ Len(transactions) = 2
  /\ Len(allData(transactions)) = 1
  /\ transactions[1].occurredAt > transactions[2].occurredAt

\* C16: whenever a budget's progress reports isOverBudget (spent > amount), it
\* reports overspendProbability = 100
OverBudgetIsCertain ==
  \A b \in budgetStore :
    LET p == getBudgetProgress(b, plannerTransactions, now)
    IN /\ p.isOverBudget <=> p.spent > b.amount
       /\ p.isOverBudget => p.overspendProbability = 100

\* a budget is overspent before the last day of the month
OverBudgetWitness ==
  /\ getDate(now) < 30
  /\ \E b \in budgetStore : getBudgetProgress(b, plannerTransactions, now).isOverBudget

\* the lists made of some of the elements of s, in the order of s
SubLists(s) ==
  {SelectSeq([i \in 1..Len(s) |-> [at |-> i, t |-> s[i]]], LAMBDA x : x.at \in keep) :
     keep \in SUBSET (1..Len(s))}

Unwrap(s) == [i \in 1..Len(s) |-> s[i].t]

\* C17: for a budget of amount > 0 on a fixed day, progress is monotonic in
\* spent: of two transaction lists, the one with the greater or equal spent has
\* the greater or equal percentage and overspendProbability
ProgressMonotonic ==
  \A b \in budgetStore :
    \A s1, s2 \in SubLists(plannerTransactions) :
      LET p1 == getBudgetProgress(b, Unwrap(s1), now)
          p2 == getBudgetProgress(b, Unwrap(s2), now)
      IN (b.amount > 0 /\ p1.spent <= p2.spent)
           => /\ p1.percentage <= p2.percentage
              /\ p1.overspendProbability <= p2.overspendProbability

\* nothing spent, spent within the budget, and overspent, on one budget and day
ProgressMonotonicWitness ==
  \E b \in budgetStore :
    \E s1, s2 \in SubLists(plannerTransactions) :
      LET p1 == getBudgetProgress(b, Unwrap(s1), now)
          p2 == getBudgetProgress(b, Unwrap(s2), now)
      IN /\ 0 < p1.spent /\ p1.spent < p2.spent
         /\ 0 < p1.overspendProbability /\ p1.overspendProbability < 100
         /\ p2.overspendProbability = 100

\* a monthly budget of 5000 with 4500 spent, seen on day 20 of a 30-day month
ExampleCase(b) ==
  /\ b.type = "monthly" /\ b.amount = Example.amount
  /\ getBudgetSpent(b, plannerTransactions, now) = Example.spent
  /\ getDate(now) = 20 /\ MonthLengths[getMonth(now) + 1] = 30

\* C18: in that case progress gives percentage = 90 and isOverBudget = false,
\* and overspendProbability = 30 unless the pace ratio spent / dayOfMonth *
\* daysInMonth / amount is above 1.0
ExampleProgress ==
  \A b \in budgetStore :
    ExampleCase(b)
      => LET p == getBudgetProgress(b, plannerTransactions, now)
         IN /\ p.percentage = 90
            /\ ~p.isOverBudget
            /\ (Example.spent * 30 <= 20 * Example.amount) => p.overspendProbability = 30

ExampleWitness == \E b \in budgetStore : ExampleCase(b)

\* the expenses of the list that match the budget's tags and lie between the
\* two instants, both included
SpentBetween(b, txs, from, to) ==
  LET matching == {i \in 1..Len(txs) : /\ txs[i].type = "expense"
                                        /\ from <= txs[i].occurredAt
                                        /\ txs[i].occurredAt <= to
                                        /\ (b.tags = <<>> \/ \E j \in 1..Len(b.tags) :
                                                              b.tags[j] = txs[i].tag)}
      f[i \in 0..Len(txs)] ==
        IF i = 0 THEN 0 ELSE f[i - 1] + (IF i \in matching THEN txs[i].amount ELSE 0)
  IN f[Len(txs)]

\* C19: the spent of a monthly budget with a month field is taken over that
\* month, first day to the end of the last day; the month of the current date
\* is used only when the budget has no month field
MonthFieldWindow ==
  \A b \in budgetStore :
    b.type = "monthly"
      => LET m == IF "month" \in DOMAIN b THEN b.month ELSE getMonth(now)
         IN getBudgetSpent(b, plannerTransactions, now)
              = SpentBetween(b, plannerTransactions, MonthStart(m), MonthEnd(m))

\* C20: the spent of a budget is the sum of the amounts of the expenses whose
\* occurredAt lies in the budget's window, both ends included, and whose tag is
\* one of budget.tags, or any tag when budget.tags is empty; the income in the
\* list adds nothing
SpentIsMatchingExpenses ==
  \A b \in budgetStore :
    LET w == resolveWindow(b, now)
    IN /\ getBudgetSpent(b, plannerTransactions, now)
            = SpentBetween(b, plannerTransactions, w.startDate, w.endDate)
       /\ getBudgetSpent(b, plannerTransactions, now)
            = getBudgetSpent(b, FilterType(plannerTransactions, "expense"), now)

\* a budget with a tag and a custom range: an expense at the last instant of
\* the range is counted, an income inside the range is not
SpentWitness ==
  \E b \in budgetStore :
    LET w == resolveWindow(b, now)
        txs == plannerTransactions
    IN /\ b.type = "custom" /\ b.tags # <<>> /\ b.endDate # NoDate
       /\ \E i, j \in 1..Len(txs) :
            /\ txs[i].type = "expense" /\ txs[i].occurredAt = w.endDate
            /\ txs[i].tag = b.tags[1]
            /\ txs[j].type = "income" /\ txs[j].occurredAt >= w.startDate
            /\ txs[j].occurredAt <= w.endDate
       /\ getBudgetSpent(b, txs, now) > 0

\* the sum of the second components of a set of <<key, value>> pairs
RECURSIVE SumPairs(_)
SumPairs(P) ==
  IF P = {} THEN 0
  ELSE LET p == CHOOSE q \in P : TRUE IN p[2] + SumPairs(P \ {p})

Categories == {"needs", "wants", "investment"}

\* C21: for each of needs, wants and investment, categorySummaries reports as
\* budget the sum of the amounts and as spent the sum of the spending of exactly
\* the monthly budgets of that category (budgets of a custom range add nothing);
\* the percentage is spent / budget * 100 rounded to the nearest integer, and 0
\* when the budget total is 0
CategoryTotals ==
  \A cat \in Categories :
    LET summary == categorySummaries(plannerBudgets, plannerTransactions, now)[cat]
        monthly == {b \in budgetStore : b.type = "monthly" /\ b.category = cat}
        budget == SumPairs({<<b.id, b.amount>> : b \in monthly})
        spent == SumPairs({<<b.id, getBudgetSpent(b, plannerTransactions, now)>> :
                           b \in monthly})
    IN /\ summary.budget = budget
       /\ summary.spent = spent
       /\ Range(summary.budgets) = monthly
       /\ budget = 0 => summary.percentage = 0
       /\ budget > 0 =>
            /\ (2 * summary.percentage - 1) * budget <= 200 * spent
            /\ 200 * spent < (2 * summary.percentage + 1) * budget

\* a category with a monthly budget and a budget of a custom range, money spent
\* under both
CategoryTotalsWitness ==
  \E b, c \in budgetStore :
    /\ b.category = c.category
    /\ b.type = "monthly" /\ c.type = "custom"
    /\ getBudgetSpent(b, plannerTransactions, now) > 0
    /\ getBudgetSpent(c, plannerTransactions, now) > 0
    /\ categorySummaries(plannerBudgets, plannerTransactions, now)[b.category].percentage > 0

\* C25: the displayed order lists every budget once; in it no budget that is
\* not over budget stands before one that is over budget, and inside the group
\* of over-budget budgets and inside the group of the others the percentages
\* never increase
DisplayOrder ==
  LET shown == sortedBudgets(plannerBudgets, plannerTransactions, now)
      progress(i) == getBudgetProgress(shown[i], plannerTransactions, now)
  IN /\ Len(shown) = Len(plannerBudgets)
     /\ Range(shown) = budgetStore
     /\ \A i, j \in 1..Len(shown) :
          i < j =>
            /\ ~(~progress(i).isOverBudget /\ progress(j).isOverBudget)
            /\ progress(i).isOverBudget = progress(j).isOverBudget
                 => progress(i).percentage >= progress(j).percentage

\* two budgets stored in the other order than the displayed one: the second is
\* over budget and the first is not
DisplayOrderWitness ==
  /\ Len(plannerBudgets) = 2
  /\ ~getBudgetProgress(plannerBudgets[1], plannerTransactions, now).isOverBudget
  /\ getBudgetProgress(plannerBudgets[1], plannerTransactions, now).percentage > 0
  /\ getBudgetProgress(plannerBudgets[2], plannerTransactions, now).isOverBudget
  /\ sortedBudgets(plannerBudgets, plannerTransactions, now)
       = <<plannerBudgets[2], plannerBudgets[1]>>

\* C22: in every state of the store, after any sequence of add, edit, group
\* split, settlement, delete and restore, every stored transaction has an
\* amount >= 0
AmountsNonNegative == \A t \in txStore : t.amount >= 0

UserActions == {"add", "edit", "settle", "saveBudget", "deleteBudget"}

\* C23: when a storage write fails during an add or edit of a transaction, a
\* settlement, or the saving or deleting of a budget, the transaction list and
\* the budget list in memory stay as they were and the user is told of the
\* failure (for a settlement the message is the business of the modal that
\* called handleSettle, and is not judged here)
FailureLeavesMemoryAndIsReported ==
  [][(last'.failed /\ last'.op \in UserActions) =>
        /\ transactions' = transactions
        /\ budgetStore' = budgetStore
        /\ last'.op # "settle" => last'.reported]_vars

\* C24: saving or deleting a budget leaves the stored transactions as they
\* are, and adding, editing or deleting a transaction leaves the stored budgets
\* as they are
StoresIndependent ==
  [][/\ last'.op \in {"saveBudget", "deleteBudget"} => txStore' = txStore
     /\ last'.op \in {"add", "edit", "delete"} => budgetStore' = budgetStore]_vars

\* a budget was deleted while a transaction is stored
StoresIndependentWitness ==
  /\ last.op = "deleteBudget" /\ ~last.failed
  /\ budgetStore = {}
  /\ txStore # {}

\* C26: storing a transaction is an upsert by id: the store never holds two
\* transactions of one id, an edit replaces the record of its id and leaves
\* the ids and the number of stored transactions as they were, and a delete
\* removes the selected record and nothing else
UpsertById ==
  [][/\ \A x, y \in txStore' : x.id = y.id => x = y
     /\ (last'.op = "edit" /\ ~last'.failed) =>
          /\ Ids(txStore') = Ids(txStore)
          /\ Cardinality(txStore') = Cardinality(txStore)
     /\ (last'.op = "delete" /\ ~last'.failed) =>
          /\ transactionToDelete \in txStore
          /\ txStore' = txStore \ {transactionToDelete}]_vars

\* an edit was made while two transactions are stored, and the edited list
\* holds an income and an expense
UpsertByIdWitness ==
  /\ last.op = "edit" /\ ~last.failed
  /\ Cardinality(txStore) = 2
  /\ \E x, y \in txStore : x.type = "income" /\ y.type = "expense"

\* the amounts of the settlement that just ran, added up
SettledSum(l) == l.cash + l.spent + l.other

\* C27: for a counterparty with a net balance b other than 0, of either sign,
\* adding to the ledger the transactions of a settlement with amounts cash,
\* spentForMe and other whose sum s satisfies 0 < s <= |b| leaves a net balance
\* of absolute value |b| - s (b is the balance the ledger shows when the
\* settlement is made, and the created records are new ones)
SettleReducesBalance ==
  [][(/\ SettleRan(last') /\ ~last'.failed
      /\ Ids(txStore) \cap {last'.batch[i].id : i \in 1..Len(last'.batch)} = {}
      /\ netBalance(PersonEntry(loadTransactions(txStore), last'.person)) = last'.balance
      /\ last'.balance # 0
      /\ SettledSum(last') > 0 /\ SettledSum(last') <= Abs(last'.balance)) =>
       Abs(netBalance(PersonEntry(transactions', last'.person)))
         = Abs(last'.balance) - SettledSum(last')]_vars

EnteredEquals(text, amount) == text.digits /\ text.tenths = 0 /\ text.whole = amount

\* C29: the delete flow removes a transaction from the store only when the
\* amount entered for confirmation equals the amount of the selected
\* transaction, and then removes the selected transaction and no other; when
\* the field is empty or holds another amount, the store and the list in memory
\* stay as they are and the modal stays open with its error message
DeleteOnlyWhenConfirmed ==
  [][last'.op \in {"delete", "deleteRejected"} =>
       IF EnteredEquals(last'.entered, transactionToDelete.amount)
       THEN /\ txStore' = txStore \ {transactionToDelete}
            /\ transactions' = loadTransactions(txStore')
       ELSE /\ last'.op = "deleteRejected"
            /\ UNCHANGED <<txStore, transactions, transactionToDelete>>]_vars

\* C30: a group expense of total T over n >= 1 selected persons creates exactly
\* n expenses, one for each selected person, each of amount floor(T / n), all
\* with one occurredAt, name and tag; the amounts add up to n * floor(T / n),
\* which is T less the remainder of T by n
GroupSplitFloor ==
  [][(last'.op = "group" /\ ~last'.failed) =>
       LET T == last'.total
           n == Len(last'.persons)
           created == txStore' \ txStore
           total == SumPairs({<<t.id, t.amount>> : t \in created})
       IN /\ n >= 1
          /\ Cardinality(created) = n
          /\ \A i \in 1..n :
               Cardinality({t \in created : t.person = last'.persons[i]}) = 1
          /\ \A t \in created :
               /\ t.type = "expense"
               /\ t.amount * n <= T /\ T < (t.amount + 1) * n
          /\ Cardinality({<<t.occurredAt, t.name, t.tag>> : t \in created}) = 1
          /\ total <= T
          /\ T - total = T % n]_vars

\* a total of 3 was split between two persons
GroupSplitFloorWitness ==
  /\ last.op = "group" /\ ~last.failed
  /\ last.total = 3 /\ Len(last.persons) = 2
  /\ Cardinality(txStore) = 2
====
